---- MODULE Spec2Model ----
(***************************************************************************)
(* zerodb: the statement dispatcher handle_sql_query                       *)
(* (src/src/sql_query/mod.rs) over the in-memory Database/Table model.     *)
(*                                                                         *)
(* The dispatcher is translated from mod.rs.  Database, Table, CreateQuery *)
(* and InsertQuery live in crate::database, crate::table and               *)
(* query::{create,insert}; their operators below follow sections 3, 4.2,   *)
(* 4.3 and 4.4 of the specification.                                       *)
(***************************************************************************)
EXTENDS Integers, Sequences, FiniteSets, TLC

VARIABLES
  tables,     \* Database.tables: table name -> Table
  before,     \* Database.tables as it was when the last call started
  sql_query,  \* the input of the last call, as the parser sees it
  result,     \* what the last call returned
  pc,         \* "idle" between calls, "returned" when a call has just returned
  calls,      \* calls made in this session
  command,    \* the raw command string given to SQLQuery::new
  classified  \* what SQLQuery::new made of it

vars == <<tables, before, sql_query, result, pc, calls, command, classified>>

(***************************************************************************)
(* Bounds of the explored inputs.                                          *)
(***************************************************************************)
MaxCols == 2        \* columns in a CREATE TABLE, target columns and tuple length
MaxTuples == 2      \* value tuples in one INSERT
MaxVal == 2         \* scalar values are 1..MaxVal
MaxStatements == 2  \* statements in one input text
MaxCalls == 3       \* calls of handle_sql_query in one session
MaxCommandLen == 3  \* pieces (keywords, other text, spaces) in a raw command string

TableNames == {"t", "u"}
ColumnNames == {"a", "b"}
Values == 1..MaxVal

SeqsUpTo(S, lo, hi) == UNION {[1..n -> S] : n \in lo..hi}

(***************************************************************************)
(* Data model.  A Column is a name and its unique flag (primary key        *)
(* implies unique); the declared type is never read by the dispatcher and  *)
(* is left out.  A Row maps the populated column positions to values.      *)
(***************************************************************************)
Column == [name : ColumnNames, is_unique : BOOLEAN]

ColumnLists == SeqsUpTo(Column, 1, MaxCols)

Table_new(create_query) ==
  [columns |-> create_query.columns, rows |-> <<>>]

has_table(db, table_name) == table_name \in DOMAIN db

get_table_mut(db, table_name) == db[table_name]

has_column(table, column_name) ==
  \E i \in 1..Len(table.columns) : table.columns[i].name = column_name

\* position of a named column in the schema (the first one of that name)
ColumnPosition(table, column_name) ==
  CHOOSE i \in 1..Len(table.columns) :
    /\ table.columns[i].name = column_name
    /\ \A j \in 1..(i - 1) : table.columns[j].name # column_name

\* the target-column indexes at which the candidate tuple collides with a row
UniqueViolations(table, column_names, values) ==
  {i \in 1..Len(column_names) :
     LET p == ColumnPosition(table, column_names[i]) IN
       /\ table.columns[p].is_unique
       /\ \E r \in 1..Len(table.rows) :
            /\ p \in DOMAIN table.rows[r]
            /\ table.rows[r][p] = values[i]}

Min(S) == CHOOSE x \in S : \A y \in S : x <= y

\* Ok, or the ConstraintError naming the first colliding target column
check_unique_constraint(table, column_names, values) ==
  LET bad == UniqueViolations(table, column_names, values) IN
    IF bad = {} THEN [tag |-> "Ok"]
    ELSE [tag |-> "Err", error |-> column_names[Min(bad)]]

\* the Row of one tuple: each value at the position of its target column
RECURSIVE MapValues(_, _, _, _, _)
MapValues(table, column_names, values, i, row) ==
  IF i > Len(column_names) THEN row
  ELSE LET p == ColumnPosition(table, column_names[i])
           d == DOMAIN row \cup {p}
       IN MapValues(table, column_names, values, i + 1,
                    [q \in d |-> IF q = p THEN values[i] ELSE row[q]])

insert_row(table, column_names, values) ==
  [table EXCEPT !.rows =
     Append(@, MapValues(table, column_names, values, 1, <<>>))]

(***************************************************************************)
(* The parsed input.  sqlparser yields Err(ParserError) or a Vec of        *)
(* Statements; a Statement is a kind with the parts the translators read.  *)
(***************************************************************************)
Tuples == SeqsUpTo(Values, 1, MaxCols)

CreateTableStatements ==
  [kind : {"CreateTable"}, name : TableNames, columns : ColumnLists,
   expected_shape : BOOLEAN]

InsertStatements ==
  [kind : {"Insert"}, name : TableNames,
   columns : SeqsUpTo(ColumnNames, 0, MaxCols),
   values : SeqsUpTo(Tuples, 1, MaxTuples), expected_shape : {TRUE}]
  \cup
  [kind : {"Insert"}, name : TableNames,
   columns : SeqsUpTo(ColumnNames, 0, MaxCols),
   values : {<<>>}, expected_shape : {FALSE}]

OtherKinds == {"Query", "Update", "Delete", "Drop"}

OtherStatements == [kind : OtherKinds, name : TableNames]

Statements == CreateTableStatements \cup InsertStatements \cup OtherStatements

\* the statements a multi-statement text is made of
BatchStatements ==
  {s \in CreateTableStatements :
     Len(s.columns) = 1 /\ ~s.columns[1].is_unique /\ s.expected_shape}
  \cup [kind : {"Query"}, name : TableNames]

Inputs ==
  {[parse |-> "Err", ast |-> <<>>]}
  \cup [parse : {"Ok"}, ast : SeqsUpTo(Statements, 0, 1)]
  \cup [parse : {"Ok"}, ast : SeqsUpTo(BatchStatements, 2, MaxStatements)]

(***************************************************************************)
(* Result<String>: Ok(message), Err(NollaDBError) as the enum variant with *)
(* the format string and its arguments, or the panic of unwrap().          *)
(***************************************************************************)
Ok(message) == [tag |-> "Ok", message |-> message]

Err(variant, format, args) ==
  [tag |-> "Err", variant |-> variant, format |-> format, args |-> args]

Panic == [tag |-> "Panic"]

Return(db, r) == [tables |-> db, result |-> r]

\* CreateQuery::new / InsertQuery::new: the translator's view of a statement
CreateQuery_new(statement) ==
  IF statement.expected_shape
  THEN [tag |-> "Ok",
        value |-> [table_name |-> statement.name, columns |-> statement.columns]]
  ELSE [tag |-> "Err",
        error |-> Err("Internal", "malformed CREATE TABLE statement", <<>>)]

InsertQuery_new(statement) ==
  IF statement.expected_shape
  THEN [tag |-> "Ok",
        value |-> [table_name |-> statement.name,
                   table_column_names |-> statement.columns,
                   table_column_values |-> statement.values]]
  ELSE [tag |-> "Err",
        error |-> Err("Internal", "malformed INSERT statement", <<>>)]

(***************************************************************************)
(* handle_sql_query, arm by arm.                                           *)
(***************************************************************************)

\* the loop, were the unique constraint not checked
RECURSIVE InsertTuples_nounique(_, _, _, _)
InsertTuples_nounique(table, table_column_names, table_column_values, i) ==
  IF i > Len(table_column_values) THEN [table |-> table, result |-> [tag |-> "Ok"]]
  ELSE
    LET table_column_value == table_column_values[i]
        v_len == Len(table_column_value)
        n_len == Len(table_column_names)
    IN
      IF v_len # n_len
      THEN [table |-> table,
            result |-> Err("Internal", "{} values for {} columns", <<v_len, n_len>>)]
      ELSE InsertTuples_nounique(
             insert_row(table, table_column_names, table_column_value),
             table_column_names, table_column_values, i + 1)

\* the loop, were it left with break at a failing tuple instead of return Err
RECURSIVE InsertTuples_break(_, _, _, _)
InsertTuples_break(table, table_column_names, table_column_values, i) ==
  IF i > Len(table_column_values) THEN [table |-> table, result |-> [tag |-> "Ok"]]
  ELSE
    LET table_column_value == table_column_values[i]
    IN
      IF \/ Len(table_column_value) # Len(table_column_names)
         \/ check_unique_constraint(table, table_column_names,
                                    table_column_value).tag = "Err"
      THEN [table |-> table, result |-> [tag |-> "Ok"]]
      ELSE InsertTuples_break(
             insert_row(table, table_column_names, table_column_value),
             table_column_names, table_column_values, i + 1)

\* the loop, were the unique constraint checked before the tuple's length
RECURSIVE InsertTuples_uniquefirst(_, _, _, _)
InsertTuples_uniquefirst(table, table_column_names, table_column_values, i) ==
  IF i > Len(table_column_values) THEN [table |-> table, result |-> [tag |-> "Ok"]]
  ELSE
    LET table_column_value == table_column_values[i]
        v_len == Len(table_column_value)
        n_len == Len(table_column_names)
        paired == IF v_len < n_len THEN v_len ELSE n_len
        checked == check_unique_constraint(table,
                     SubSeq(table_column_names, 1, paired), table_column_value)
    IN
      IF checked.tag = "Err"
      THEN [table |-> table,
            result |-> Err("Internal", "Unique key constraint violation: {}",
                           <<checked.error>>)]
      ELSE IF v_len # n_len
      THEN [table |-> table,
            result |-> Err("Internal", "{} values for {} columns", <<v_len, n_len>>)]
      ELSE InsertTuples_uniquefirst(
             insert_row(table, table_column_names, table_column_value),
             table_column_names, table_column_values, i + 1)

\* the loop, were the tuples taken from the last to the first
RECURSIVE InsertTuples_reverse(_, _, _, _)
InsertTuples_reverse(table, table_column_names, table_column_values, i) ==
  IF i > Len(table_column_values) THEN [table |-> table, result |-> [tag |-> "Ok"]]
  ELSE
    LET table_column_value == table_column_values[Len(table_column_values) + 1 - i]
        v_len == Len(table_column_value)
        n_len == Len(table_column_names)
    IN
      IF v_len # n_len
      THEN [table |-> table,
            result |-> Err("Internal", "{} values for {} columns", <<v_len, n_len>>)]
      ELSE
        LET checked == check_unique_constraint(table, table_column_names,
                                               table_column_value)
        IN
          IF checked.tag = "Err"
          THEN [table |-> table,
                result |-> Err("Internal", "Unique key constraint violation: {}",
                               <<checked.error>>)]
          ELSE InsertTuples_reverse(
                 insert_row(table, table_column_names, table_column_value),
                 table_column_names, table_column_values, i + 1)

\* the loop, were a failing tuple skipped and the tuples after it applied
RECURSIVE InsertTuples_skip(_, _, _, _)
InsertTuples_skip(table, table_column_names, table_column_values, i) ==
  IF i > Len(table_column_values) THEN [table |-> table, result |-> [tag |-> "Ok"]]
  ELSE
    LET table_column_value == table_column_values[i]
        v_len == Len(table_column_value)
        n_len == Len(table_column_names)
        checked == check_unique_constraint(table, table_column_names,
                                           table_column_value)
        failure ==
          IF v_len # n_len
          THEN Err("Internal", "{} values for {} columns", <<v_len, n_len>>)
          ELSE IF checked.tag = "Err"
          THEN Err("Internal", "Unique key constraint violation: {}",
                   <<checked.error>>)
          ELSE [tag |-> "Ok"]
        rest == InsertTuples_skip(
                  IF failure.tag = "Ok"
                  THEN insert_row(table, table_column_names, table_column_value)
                  ELSE table,
                  table_column_names, table_column_values, i + 1)
    IN [table |-> rest.table,
        result |-> IF failure.tag = "Ok" THEN rest.result ELSE failure]

\* mod.rs 132-159: the loop over the value tuples, from tuple i on
RECURSIVE InsertTuples(_, _, _, _)
InsertTuples(table, table_column_names, table_column_values, i) ==
  IF i > Len(table_column_values) THEN [table |-> table, result |-> [tag |-> "Ok"]]
  ELSE
    LET table_column_value == table_column_values[i]
        v_len == Len(table_column_value)
        n_len == Len(table_column_names)
    IN
      IF v_len # n_len
      THEN [table |-> table,
            result |-> Err("Internal", "{} values for {} columns", <<v_len, n_len>>)]
      ELSE
        LET checked == check_unique_constraint(table, table_column_names,
                                               table_column_value)
        IN
          IF checked.tag = "Err"
          THEN [table |-> table,
                result |-> Err("Internal", "Unique key constraint violation: {}",
                               <<checked.error>>)]
          ELSE InsertTuples(insert_row(table, table_column_names, table_column_value),
                            table_column_names, table_column_values, i + 1)

\* the arm, were the new table never put into database.tables
CreateTableArm_lost(statement, db) ==
  LET parsed == CreateQuery_new(statement) IN
    IF parsed.tag = "Err" THEN Return(db, parsed.error)
    ELSE
      IF has_table(db, parsed.value.table_name)
      THEN Return(db, Err("Internal",
             "Can not create table, because table '{}' already exists",
             <<parsed.value.table_name>>))
      ELSE Return(db, Ok("CREATE TABLE statement done"))

\* the arm, were has_table not asked: insert replaces the existing table
CreateTableArm_overwrite(statement, db) ==
  LET parsed == CreateQuery_new(statement) IN
    IF parsed.tag = "Err" THEN Return(db, parsed.error)
    ELSE
      LET table_name == parsed.value.table_name
          table == Table_new(parsed.value)
      IN Return([n \in DOMAIN db \cup {table_name} |->
                   IF n = table_name THEN table ELSE db[n]],
                Ok("CREATE TABLE statement done"))

\* mod.rs 64-95: Statement::CreateTable
CreateTableArm(statement, db) ==
  LET parsed == CreateQuery_new(statement) IN
    IF parsed.tag = "Err" THEN Return(db, parsed.error)
    ELSE
      LET create_query == parsed.value
          table_name == create_query.table_name
      IN
        IF has_table(db, table_name)
        THEN Return(db, Err("Internal",
               "Can not create table, because table '{}' already exists",
               <<table_name>>))
        ELSE
          LET table == Table_new(create_query) IN
            Return([n \in DOMAIN db \cup {table_name} |->
                      IF n = table_name THEN table ELSE db[n]],
                   Ok("CREATE TABLE statement done"))

\* the arm, were has_table not asked: get_table_mut(..).unwrap() panics
InsertArm_unchecked(statement, db) ==
  LET parsed == InsertQuery_new(statement) IN
    IF parsed.tag = "Err" THEN Return(db, parsed.error)
    ELSE
      LET table_name == parsed.value.table_name
          table_column_names == parsed.value.table_column_names
          table_column_values == parsed.value.table_column_values
      IN
        IF ~has_table(db, table_name) THEN Return(db, Panic)
        ELSE
          LET table == get_table_mut(db, table_name) IN
            IF ~(\A i \in 1..Len(table_column_names) :
                   has_column(table, table_column_names[i]))
            THEN Return(db, Err("Internal",
                   "Can not insert, because some of the columns do not exist", <<>>))
            ELSE
              LET done == InsertTuples(table, table_column_names,
                                       table_column_values, 1)
                  db2 == [db EXCEPT ![table_name] = done.table]
              IN
                IF done.result.tag = "Err" THEN Return(db2, done.result)
                ELSE Return(db2, Ok("INSERT statement done"))

\* the arm, were the tuples' lengths checked before the target columns
InsertArm_arityfirst(statement, db) ==
  LET parsed == InsertQuery_new(statement) IN
    IF parsed.tag = "Err" THEN Return(db, parsed.error)
    ELSE
      LET table_name == parsed.value.table_name
          table_column_names == parsed.value.table_column_names
          table_column_values == parsed.value.table_column_values
          n_len == Len(table_column_names)
          unfit == {k \in 1..Len(table_column_values) :
                      Len(table_column_values[k]) # n_len}
      IN
        IF ~has_table(db, table_name)
        THEN Return(db, Err("Internal", "Table '{}' does not exist", <<table_name>>))
        ELSE IF unfit # {} /\ Min(unfit) = 1
        THEN Return(db, Err("Internal", "{} values for {} columns",
                            <<Len(table_column_values[1]), n_len>>))
        ELSE
          LET table == get_table_mut(db, table_name) IN
            IF ~(\A i \in 1..Len(table_column_names) :
                   has_column(table, table_column_names[i]))
            THEN Return(db, Err("Internal",
                   "Can not insert, because some of the columns do not exist", <<>>))
            ELSE
              LET done == InsertTuples(table, table_column_names,
                                       table_column_values, 1)
                  db2 == [db EXCEPT ![table_name] = done.table]
              IN
                IF done.result.tag = "Err" THEN Return(db2, done.result)
                ELSE Return(db2, Ok("INSERT statement done"))

\* mod.rs 100-168: Statement::Insert
InsertArm(statement, db) ==
  LET parsed == InsertQuery_new(statement) IN
    IF parsed.tag = "Err" THEN Return(db, parsed.error)
    ELSE
      LET table_name == parsed.value.table_name
          table_column_names == parsed.value.table_column_names
          table_column_values == parsed.value.table_column_values
      IN
        IF ~has_table(db, table_name)
        THEN Return(db, Err("Internal", "Table '{}' does not exist", <<table_name>>))
        ELSE
          LET table == get_table_mut(db, table_name) IN
            IF ~(\A i \in 1..Len(table_column_names) :
                   has_column(table, table_column_names[i]))
            THEN Return(db, Err("Internal",
                   "Can not insert, because some of the columns do not exist", <<>>))
            ELSE
              LET done == InsertTuples(table, table_column_names,
                                       table_column_values, 1)
                  db2 == [db EXCEPT ![table_name] = done.table]
              IN
                IF done.result.tag = "Err" THEN Return(db2, done.result)
                ELSE Return(db2, Ok("INSERT statement done"))

\* the arms, were the named table looked up as the Insert arm does
PlaceholderArm_validate(statement, db) ==
  IF ~has_table(db, statement.name)
  THEN Return(db, Err("Internal", "Table '{}' does not exist", <<statement.name>>))
  ELSE CASE statement.kind = "Query" -> Return(db, Ok("SELECT statement done"))
         [] statement.kind = "Update" -> Return(db, Ok("UPDATE statement done"))
         [] statement.kind = "Delete" -> Return(db, Ok("UPDATE statement done"))

\* mod.rs 96-99 and 169-180: Statement::Query, Update, Delete
PlaceholderArm(statement, db) ==
  CASE statement.kind = "Query" -> Return(db, Ok("SELECT statement done"))
    [] statement.kind = "Update" -> Return(db, Ok("UPDATE statement done"))
    [] statement.kind = "Delete" -> Return(db, Ok("UPDATE statement done"))

\* the dispatcher, were ast.len() > 1 not rejected: pop() takes the last
\* statement of the batch
handle_sql_query_batch(input, db) ==
  IF input.parse = "Err"
  THEN Return(db, Err("SQLParseError", "{parser diagnostic}", <<>>))
  ELSE
    LET ast == input.ast IN
      IF Len(ast) = 0
      THEN Return(db, Panic)
      ELSE
        LET statement == ast[Len(ast)] IN
          CASE statement.kind = "CreateTable" -> CreateTableArm(statement, db)
            [] statement.kind = "Insert" -> InsertArm(statement, db)
            [] statement.kind \in {"Query", "Update", "Delete"} ->
                 PlaceholderArm(statement, db)
            [] OTHER ->
                 Return(db, Err("ToBeImplemented",
                   "Other SQL statement will to be implemented soon", <<>>))

\* the dispatcher, were every other statement kind acknowledged like the
\* placeholder arms
handle_sql_query_ack(input, db) ==
  IF input.parse = "Err"
  THEN Return(db, Err("SQLParseError", "{parser diagnostic}", <<>>))
  ELSE
    LET ast == input.ast IN
      IF Len(ast) > 1
      THEN Return(db, Err("SQLParseError",
             "Expected a single SQL query statement, but here are '{}' SQL query statements",
             <<Len(ast)>>))
      ELSE IF Len(ast) = 0
      THEN Return(db, Panic)
      ELSE
        LET statement == ast[Len(ast)] IN
          CASE statement.kind = "CreateTable" -> CreateTableArm(statement, db)
            [] statement.kind = "Insert" -> InsertArm(statement, db)
            [] statement.kind \in {"Query", "Update", "Delete"} ->
                 PlaceholderArm(statement, db)
            [] OTHER -> Return(db, Ok("UPDATE statement done"))

\* the dispatcher, were DROP TABLE carried out by the catch-all arm
handle_sql_query_drop(input, db) ==
  IF input.parse = "Err"
  THEN Return(db, Err("SQLParseError", "{parser diagnostic}", <<>>))
  ELSE
    LET ast == input.ast IN
      IF Len(ast) > 1
      THEN Return(db, Err("SQLParseError",
             "Expected a single SQL query statement, but here are '{}' SQL query statements",
             <<Len(ast)>>))
      ELSE IF Len(ast) = 0
      THEN Return(db, Panic)
      ELSE
        LET statement == ast[Len(ast)] IN
          CASE statement.kind = "CreateTable" -> CreateTableArm(statement, db)
            [] statement.kind = "Insert" -> InsertArm(statement, db)
            [] statement.kind \in {"Query", "Update", "Delete"} ->
                 PlaceholderArm(statement, db)
            [] OTHER ->
                 Return([n \in DOMAIN db \ {statement.name} |-> db[n]],
                        Err("ToBeImplemented",
                            "Other SQL statement will to be implemented soon", <<>>))

\* mod.rs 39-192
handle_sql_query(input, db) ==
  IF input.parse = "Err"
  THEN Return(db, Err("SQLParseError", "{parser diagnostic}", <<>>))
  ELSE
    LET ast == input.ast IN
      IF Len(ast) > 1
      THEN Return(db, Err("SQLParseError",
             "Expected a single SQL query statement, but here are '{}' SQL query statements",
             <<Len(ast)>>))
      ELSE IF Len(ast) = 0
      THEN Return(db, Panic)   \* ast.pop() is None and unwrap() panics
      ELSE
        LET statement == ast[Len(ast)] IN
          CASE statement.kind = "CreateTable" -> CreateTableArm(statement, db)
            [] statement.kind = "Insert" -> InsertArm(statement, db)
            [] statement.kind \in {"Query", "Update", "Delete"} ->
                 PlaceholderArm(statement, db)
            [] OTHER ->
                 Return(db, Err("ToBeImplemented",
                   "Other SQL statement will to be implemented soon", <<>>))

(***************************************************************************)
(* The state machine: a single-threaded session that calls                 *)
(* handle_sql_query, takes the result, and calls again.                    *)
(***************************************************************************)
NoCall == [parse |-> "None", ast |-> <<>>]

NoResult == [tag |-> "None"]

NotClassified == [tag |-> "None"]

Init ==
  /\ tables = <<>>
  /\ before = <<>>
  /\ sql_query = NoCall
  /\ result = NoResult
  /\ pc = "idle"
  /\ calls = 0
  /\ command = <<>>
  /\ classified = NotClassified

\* one call of handle_sql_query, from entry to return (or panic)
HandleSqlQuery ==
  /\ pc = "idle"
  /\ calls < MaxCalls
  /\ \E input \in Inputs :
       /\ LET out == handle_sql_query(input, tables) IN
            /\ tables' = out.tables
            /\ result' = out.result
       /\ before' = tables
       /\ sql_query' = input
  /\ pc' = "returned"
  /\ calls' = calls + 1
  /\ UNCHANGED <<command, classified>>

\* the caller has the result and turns to its next command; a panic ends
\* the session
NextCommand ==
  /\ pc = "returned"
  /\ result.tag # "Panic"
  /\ calls < MaxCalls
  /\ pc' = "idle"
  /\ before' = tables
  /\ sql_query' = NoCall
  /\ result' = NoResult
  /\ UNCHANGED <<tables, calls, command, classified>>

Next == HandleSqlQuery \/ NextCommand

Spec == Init /\ [][Next]_vars

(***************************************************************************)
(* SQLQuery::new (mod.rs 14-37), the string classifier.  A command string  *)
(* is a sequence of pieces: a space, one of the five keywords, or other    *)
(* text; pieces with no space between them run together into one word.     *)
(***************************************************************************)
Whitespace == " "

Keywords == {"create", "select", "insert", "update", "delete"}

Pieces == {Whitespace} \cup Keywords \cup {"x"}

Commands == SeqsUpTo(Pieces, 0, MaxCommandLen)

\* command.split_whitespace().collect(): the maximal runs of non-space
\* pieces, in order; word is the run being read
RECURSIVE split_whitespace(_, _, _)
split_whitespace(s, i, word) ==
  IF i > Len(s) THEN (IF word = <<>> THEN <<>> ELSE <<word>>)
  ELSE IF s[i] = Whitespace
  THEN (IF word = <<>> THEN <<>> ELSE <<word>>) \o split_whitespace(s, i + 1, <<>>)
  ELSE split_whitespace(s, i + 1, Append(word, s[i]))

\* mod.rs 25-36
SQLQuery_new(cmd) ==
  LET args == split_whitespace(cmd, 1, <<>>) IN
    IF Len(args) = 0 THEN [tag |-> "Panic"]   \* args[0] is out of bounds
    ELSE
      LET first_cmd == args[1] IN
        CASE first_cmd = <<"create">> -> [tag |-> "CreateTable", command |-> cmd]
          [] first_cmd = <<"select">> -> [tag |-> "Select", command |-> cmd]
          [] first_cmd = <<"insert">> -> [tag |-> "Insert", command |-> cmd]
          [] first_cmd = <<"update">> -> [tag |-> "Update", command |-> cmd]
          [] first_cmd = <<"delete">> -> [tag |-> "Delete", command |-> cmd]
          [] OTHER -> [tag |-> "Unknown", command |-> cmd]

\* a caller holds any command string and no database
InitQuery ==
  /\ tables = <<>>
  /\ before = <<>>
  /\ sql_query = NoCall
  /\ result = NoResult
  /\ pc = "idle"
  /\ calls = 0
  /\ command \in Commands
  /\ classified = NotClassified

Classify ==
  /\ classified = NotClassified
  /\ classified' = SQLQuery_new(command)
  /\ UNCHANGED <<tables, before, sql_query, result, pc, calls, command>>

NextQuery == Classify

SpecQuery == InitQuery /\ [][NextQuery]_vars

(***************************************************************************)
(* Vocabulary of the properties: the error kinds of section 7 as the       *)
(* errors the dispatcher returns, and the last call as the state shows it. *)
(***************************************************************************)
UnsupportedInput(r, count) ==
  r = Err("SQLParseError",
          "Expected a single SQL query statement, but here are '{}' SQL query statements",
          <<count>>)

DuplicateTable(r, table_name) ==
  r = Err("Internal", "Can not create table, because table '{}' already exists",
          <<table_name>>)

UnknownTable(r, table_name) ==
  r = Err("Internal", "Table '{}' does not exist", <<table_name>>)

UnknownColumn(r) ==
  r = Err("Internal", "Can not insert, because some of the columns do not exist", <<>>)

ArityMismatch(r, v_len, n_len) ==
  r = Err("Internal", "{} values for {} columns", <<v_len, n_len>>)

UniqueConstraintViolation(r) ==
  /\ r.tag = "Err"
  /\ r.variant = "Internal"
  /\ r.format = "Unique key constraint violation: {}"

Returned == pc = "returned"

\* the last call was given exactly one statement, of this kind
Single(kind) ==
  /\ Returned
  /\ sql_query.parse = "Ok"
  /\ Len(sql_query.ast) = 1
  /\ sql_query.ast[1].kind = kind

TheStatement == sql_query.ast[1]

\* the last call was a translated CREATE TABLE
Creating == Single("CreateTable") /\ TheStatement.expected_shape

\* the last call was a translated INSERT
Inserting == Single("Insert") /\ TheStatement.expected_shape

\* ... into an existing table, all of whose target columns exist: the
\* value tuples are examined
Examining ==
  /\ Inserting
  /\ TheStatement.name \in DOMAIN before
  /\ \A i \in 1..Len(TheStatement.columns) :
       \E c \in 1..Len(before[TheStatement.name].columns) :
         before[TheStatement.name].columns[c].name = TheStatement.columns[i]

Target == before[TheStatement.name]

TargetNames == TheStatement.columns

TupleCount == Len(TheStatement.values)

TupleAt(k) == TheStatement.values[k]

Max(S) == CHOOSE x \in S : \A y \in S : x >= y

\* the row a tuple stands for: every target column's position holds the
\* tuple's value for it
RowOf(v) ==
  LET idx == {i \in 1..Len(TargetNames) : i <= Len(v)}
      pos(i) == ColumnPosition(Target, TargetNames[i])
  IN [p \in {pos(i) : i \in idx} |-> v[Max({i \in idx : pos(i) = p})]]

\* the target table's rows once tuples 1..j are committed
Committed(j) == Target.rows \o [i \in 1..j |-> RowOf(TupleAt(i))]

\* some row holds, at a unique target column, the tuple's value for it
Collides(rows, v) ==
  \E i \in 1..Len(TargetNames) :
    /\ i <= Len(v)
    /\ LET p == ColumnPosition(Target, TargetNames[i]) IN
         /\ Target.columns[p].is_unique
         /\ \E r \in 1..Len(rows) : p \in DOMAIN rows[r] /\ rows[r][p] = v[i]

ArityFits(k) == Len(TupleAt(k)) = Len(TargetNames)

Passes(k) == ArityFits(k) /\ ~Collides(Committed(k - 1), TupleAt(k))

\* the first tuple that fails a check; TupleCount + 1 when none does
FirstFailing == Min({k \in 1..TupleCount : ~Passes(k)} \cup {TupleCount + 1})

(***************************************************************************)
(* C1: in a multi-tuple INSERT whose tuples are examined, if tuple k is    *)
(* the first to fail its arity or uniqueness check, the call returns that  *)
(* check's error and the table holds its previous rows followed by exactly *)
(* tuples 1..k-1 in source order.                                          *)
(***************************************************************************)
C1_FirstFailureStopsInsert ==
  (Examining /\ FirstFailing <= TupleCount) =>
    LET k == FirstFailing IN
      /\ IF ArityFits(k)
         THEN UniqueConstraintViolation(result)
         ELSE ArityMismatch(result, Len(TupleAt(k)), Len(TargetNames))
      /\ tables[TheStatement.name].rows = Committed(k - 1)

\* tuple 1 was appended after an earlier row, tuple 2 failed
C1_Witness ==
  /\ Examining
  /\ Len(Target.rows) >= 1
  /\ TupleCount = 2
  /\ FirstFailing = 2
  /\ result.tag = "Err"
  /\ Len(tables[TheStatement.name].rows) = Len(Target.rows) + 1

(***************************************************************************)
(* C2 as stated: an examined tuple whose value at a unique target column   *)
(* equals the value of a row present at that moment is rejected with       *)
(* UniqueConstraintViolation and leaves the row count as it was.           *)
(***************************************************************************)
C2_CollisionAlwaysUniqueViolation ==
  Examining =>
    \A k \in 1..TupleCount :
      (k <= FirstFailing /\ Collides(Committed(k - 1), TupleAt(k))) =>
        /\ UniqueConstraintViolation(result)
        /\ Len(tables[TheStatement.name].rows) = Len(Target.rows) + k - 1

(***************************************************************************)
(* C2 amended: an examined tuple of the target-column count's length whose *)
(* value at a unique target column equals the value of a row present at    *)
(* that moment (from earlier statements or earlier tuples of this one) is  *)
(* rejected with UniqueConstraintViolation, and the row count is unchanged *)
(* by that tuple.                                                          *)
(***************************************************************************)
C2_CollisionOfFittingTupleRejected ==
  Examining =>
    \A k \in 1..TupleCount :
      (k <= FirstFailing /\ ArityFits(k)
         /\ Collides(Committed(k - 1), TupleAt(k))) =>
        /\ UniqueConstraintViolation(result)
        /\ Len(tables[TheStatement.name].rows) = Len(Target.rows) + k - 1

\* tuple 2 collides with the row tuple 1 committed, and with no earlier row
C2_Witness ==
  /\ Examining
  /\ TupleCount = 2
  /\ FirstFailing = 2
  /\ ArityFits(2)
  /\ Collides(Committed(1), TupleAt(2))
  /\ ~Collides(Target.rows, TupleAt(2))
  /\ UniqueConstraintViolation(result)
  /\ Len(tables[TheStatement.name].rows) = Len(Target.rows) + 1

(***************************************************************************)
(* C3: an input of more than one statement fails with UnsupportedInput     *)
(* and leaves the database unchanged; no statement of it is executed.      *)
(***************************************************************************)
C3_BatchRejected ==
  (Returned /\ sql_query.parse = "Ok" /\ Len(sql_query.ast) > 1) =>
    /\ UnsupportedInput(result, Len(sql_query.ast))
    /\ tables = before

\* every statement of the batch alone would have created a table
C3_Witness ==
  /\ Returned
  /\ sql_query.parse = "Ok"
  /\ Len(sql_query.ast) > 1
  /\ \A k \in 1..Len(sql_query.ast) :
       /\ sql_query.ast[k].kind = "CreateTable"
       /\ sql_query.ast[k].expected_shape
       /\ sql_query.ast[k].name \notin DOMAIN before
  /\ result.tag = "Err"
  /\ tables = before

(***************************************************************************)
(* C4: an input of zero statements fails with UnsupportedInput carrying    *)
(* the count 0: an error value is returned, the call does not abort, and   *)
(* the database is unchanged.                                              *)
(***************************************************************************)
C4_EmptyInputRejected ==
  (Returned /\ sql_query.parse = "Ok" /\ Len(sql_query.ast) = 0) =>
    /\ UnsupportedInput(result, 0)
    /\ tables = before

(***************************************************************************)
(* C5: a translated CREATE TABLE of a name not yet in the database         *)
(* succeeds; afterwards the table exists, its columns are the declared     *)
(* columns in declaration order, it has no rows, and every table that      *)
(* existed before is unchanged.                                            *)
(***************************************************************************)
C5_CreateAddsTable ==
  (Creating /\ TheStatement.name \notin DOMAIN before) =>
    /\ result = Ok("CREATE TABLE statement done")
    /\ TheStatement.name \in DOMAIN tables
    /\ tables[TheStatement.name].columns = TheStatement.columns
    /\ tables[TheStatement.name].rows = <<>>
    /\ DOMAIN tables = DOMAIN before \cup {TheStatement.name}
    /\ \A n \in DOMAIN before : tables[n] = before[n]

\* a two-column table was created next to a table that holds a row
C5_Witness ==
  /\ Creating
  /\ TheStatement.name \notin DOMAIN before
  /\ \E n \in DOMAIN before : Len(before[n].rows) >= 1
  /\ Len(TheStatement.columns) = 2
  /\ TheStatement.columns[1] # TheStatement.columns[2]
  /\ result.tag = "Ok"
  /\ TheStatement.name \in DOMAIN tables

(***************************************************************************)
(* C6: a translated CREATE TABLE of a name already in the database fails   *)
(* with DuplicateTable and leaves the existing table, schema and rows,     *)
(* as it was, whatever columns the statement declares.                     *)
(***************************************************************************)
C6_DuplicateCreateRejected ==
  (Creating /\ TheStatement.name \in DOMAIN before) =>
    /\ DuplicateTable(result, TheStatement.name)
    /\ tables = before

\* the existing table holds a row and the statement declares other columns
C6_Witness ==
  /\ Creating
  /\ TheStatement.name \in DOMAIN before
  /\ TheStatement.columns # before[TheStatement.name].columns
  /\ Len(before[TheStatement.name].rows) >= 1
  /\ result.tag = "Err"
  /\ tables = before

(***************************************************************************)
(* C7: a translated INSERT into a table that is not in the database fails  *)
(* with UnknownTable and leaves the database unchanged.                    *)
(***************************************************************************)
C7_InsertUnknownTable ==
  (Inserting /\ TheStatement.name \notin DOMAIN before) =>
    /\ UnknownTable(result, TheStatement.name)
    /\ tables = before

\* another table exists, the target does not
C7_Witness ==
  /\ Inserting
  /\ TheStatement.name \notin DOMAIN before
  /\ before # <<>>
  /\ result.tag = "Err"
  /\ tables = before

(***************************************************************************)
(* C8: a translated INSERT into an existing table that names a target      *)
(* column the table does not have fails with UnknownColumn whatever the    *)
(* value tuples are, and appends no row.                                   *)
(***************************************************************************)
C8_UnknownColumnBeforeTuples ==
  (Inserting /\ TheStatement.name \in DOMAIN before /\ ~Examining) =>
    /\ UnknownColumn(result)
    /\ tables = before

\* two tuples, the first of the wrong length, the second equal to a row
\* at a unique target column
C8_Witness ==
  /\ Inserting
  /\ TheStatement.name \in DOMAIN before
  /\ ~Examining
  /\ TupleCount = 2
  /\ Len(TupleAt(1)) # Len(TargetNames)
  /\ \E i \in 1..Len(TargetNames) :
       \E c \in 1..Len(Target.columns) :
         /\ Target.columns[c].name = TargetNames[i]
         /\ Target.columns[c].is_unique
         /\ i <= Len(TupleAt(2))
         /\ \E r \in 1..Len(Target.rows) :
              c \in DOMAIN Target.rows[r] /\ Target.rows[r][c] = TupleAt(2)[i]
  /\ UnknownColumn(result)
  /\ tables = before

(***************************************************************************)
(* C9: when the tuples of an INSERT are examined, the row count grows by   *)
(* the number of tuples before the first failing one, and the call returns *)
(* the success message exactly when all n tuples were appended.            *)
(***************************************************************************)
C9_RowCountGrowsByApplied ==
  Examining =>
    LET grown == Len(tables[TheStatement.name].rows) - Len(Target.rows) IN
      /\ grown = FirstFailing - 1
      /\ (result.tag = "Ok") <=> (grown = TupleCount)
      /\ (result.tag = "Ok") => result = Ok("INSERT statement done")
      /\ result.tag \in {"Ok", "Err"}

\* both tuples appended to a table that held a row
C9_Witness ==
  /\ Examining
  /\ Len(Target.rows) >= 1
  /\ TupleCount = 2
  /\ result.tag = "Ok"
  /\ Len(tables[TheStatement.name].rows) = Len(Target.rows) + 2

(***************************************************************************)
(* C10: SELECT, UPDATE and DELETE always succeed with an acknowledgement   *)
(* and leave the database unchanged, also when the table they name does    *)
(* not exist.                                                              *)
(***************************************************************************)
C10_PlaceholdersAcknowledge ==
  (Single("Query") \/ Single("Update") \/ Single("Delete")) =>
    /\ result.tag = "Ok"
    /\ result.message \in {"SELECT statement done", "UPDATE statement done"}
    /\ tables = before

\* a DELETE naming a table that does not exist, in a database with a table
C10_Witness ==
  /\ Single("Delete")
  /\ TheStatement.name \notin DOMAIN before
  /\ before # <<>>
  /\ result.tag = "Ok"
  /\ tables = before

(***************************************************************************)
(* C14: SQLQuery::new classifies every command string by its leading       *)
(* whitespace-delimited keyword; every other string, the empty and the     *)
(* whitespace-only string included, is Unknown; the tag carries the        *)
(* command string unchanged.                                               *)
(***************************************************************************)
\* the pieces of the command from its first non-space piece up to the next
\* space
LeadingWord ==
  LET starts == {i \in 1..Len(command) : command[i] # Whitespace} IN
    IF starts = {} THEN <<>>
    ELSE LET b == Min(starts)
             ends == {j \in b..Len(command) :
                        j = Len(command) \/ command[j + 1] = Whitespace}
         IN SubSeq(command, b, Min(ends))

ExpectedTag ==
  CASE LeadingWord = <<"create">> -> "CreateTable"
    [] LeadingWord = <<"select">> -> "Select"
    [] LeadingWord = <<"insert">> -> "Insert"
    [] LeadingWord = <<"update">> -> "Update"
    [] LeadingWord = <<"delete">> -> "Delete"
    [] OTHER -> "Unknown"

C14_ClassifiesEveryString ==
  (classified # NotClassified) =>
    classified = [tag |-> ExpectedTag, command |-> command]

(***************************************************************************)
(* C11: the success message identifies the statement kind: no statement    *)
(* of another kind, given to the same database, succeeds with the message  *)
(* the last call returned.                                                 *)
(***************************************************************************)
ResultOf(statement, db) ==
  handle_sql_query([parse |-> "Ok", ast |-> <<statement>>], db).result

C11_MessagesIdentifyKind ==
  (Returned /\ sql_query.parse = "Ok" /\ Len(sql_query.ast) = 1
     /\ result.tag = "Ok") =>
    \A s \in Statements :
      (s.kind # TheStatement.kind /\ ResultOf(s, before).tag = "Ok") =>
        ResultOf(s, before).message # result.message

(***************************************************************************)
(* C12: the seven failure causes are pairwise distinguishable by the kind  *)
(* of the error: no input failing for another of the causes, given to the  *)
(* same database, returns an error of the kind the last call returned.     *)
(***************************************************************************)
\* the seven causes, by the place that raises them
Causes ==
  {"{parser diagnostic}",
   "Expected a single SQL query statement, but here are '{}' SQL query statements",
   "Can not create table, because table '{}' already exists",
   "Table '{}' does not exist",
   "Can not insert, because some of the columns do not exist",
   "{} values for {} columns",
   "Unique key constraint violation: {}"}

FailsFor(r) == r.tag = "Err" /\ r.format \in Causes

C12_ErrorKindsDistinct ==
  (Returned /\ FailsFor(result)) =>
    \A input \in Inputs :
      LET other == handle_sql_query(input, before).result IN
        (FailsFor(other) /\ other.format # result.format) =>
          other.variant # result.variant

(***************************************************************************)
(* C13: a single statement of any kind other than CreateTable, Query,      *)
(* Insert, Update and Delete fails with NotImplemented and leaves the      *)
(* database unchanged.                                                     *)
(***************************************************************************)
NotImplemented(r) ==
  r = Err("ToBeImplemented", "Other SQL statement will to be implemented soon", <<>>)

OtherKind ==
  /\ Returned
  /\ sql_query.parse = "Ok"
  /\ Len(sql_query.ast) = 1
  /\ TheStatement.kind \notin {"CreateTable", "Query", "Insert", "Update", "Delete"}

C13_OtherKindsNotImplemented ==
  OtherKind => (NotImplemented(result) /\ tables = before)

\* a DROP of a table that exists and holds a row
C13_Witness ==
  /\ OtherKind
  /\ TheStatement.name \in DOMAIN before
  /\ Len(before[TheStatement.name].rows) >= 1
  /\ result.tag = "Err"
  /\ tables = before

(***************************************************************************)
(* C15: in every reachable state, no two rows of a table hold equal values *)
(* at the position of a column flagged unique, also when a row came from   *)
(* an INSERT whose target columns omit the unique column.                  *)
(***************************************************************************)
C15_UniqueColumnsHoldDistinctValues ==
  \A n \in DOMAIN tables :
    \A p \in 1..Len(tables[n].columns) :
      tables[n].columns[p].is_unique =>
        \A r1, r2 \in 1..Len(tables[n].rows) :
          (r1 # r2 /\ p \in DOMAIN tables[n].rows[r1]
             /\ p \in DOMAIN tables[n].rows[r2]) =>
            tables[n].rows[r1][p] # tables[n].rows[r2][p]

\* a row was appended by an INSERT that omits a unique column which an
\* earlier row populates
C15_Witness ==
  /\ Examining
  /\ result.tag = "Ok"
  /\ \E p \in 1..Len(Target.columns) :
       /\ Target.columns[p].is_unique
       /\ \A i \in 1..Len(TargetNames) : ColumnPosition(Target, TargetNames[i]) # p
       /\ \E r \in 1..Len(Target.rows) : p \in DOMAIN Target.rows[r]
  /\ Len(tables[TheStatement.name].rows) > Len(Target.rows)

(***************************************************************************)
(* C16: in every reachable state, every row of every table has exactly as  *)
(* many values as the table has columns, also after an INSERT whose target *)
(* columns are a strict subset of the table's columns.  Stated of the      *)
(* tables whose column names are pairwise distinct, so that a repeated     *)
(* column name (C20) plays no part in it.                                  *)
(***************************************************************************)
DistinctColumnNames(table) ==
  \A i, j \in 1..Len(table.columns) :
    i # j => table.columns[i].name # table.columns[j].name

C16_RowsHaveAllColumns ==
  \A n \in DOMAIN tables :
    DistinctColumnNames(tables[n]) =>
      \A r \in 1..Len(tables[n].rows) :
        Cardinality(DOMAIN tables[n].rows[r]) = Len(tables[n].columns)

(***************************************************************************)
(* C17: a reached tuple whose length differs from the target-column count  *)
(* is rejected with ArityMismatch reporting the tuple's length and the     *)
(* target-column count, whether or not it collides on a unique column,     *)
(* and is not appended.                                                    *)
(***************************************************************************)
C17_ArityCheckedFirst ==
  Examining =>
    \A k \in 1..TupleCount :
      (k <= FirstFailing /\ ~ArityFits(k)) =>
        /\ ArityMismatch(result, Len(TupleAt(k)), Len(TargetNames))
        /\ tables[TheStatement.name].rows = Committed(k - 1)

\* the tuple of the wrong length also equals a row at a unique target column
C17_Witness ==
  /\ Examining
  /\ \E k \in 1..TupleCount :
       /\ k = FirstFailing
       /\ ~ArityFits(k)
       /\ Collides(Committed(k - 1), TupleAt(k))
  /\ result.tag = "Err"
  /\ result.format = "{} values for {} columns"

(***************************************************************************)
(* C18: across any sequence of calls the set of table names never shrinks; *)
(* it changes only when a CREATE TABLE call succeeds, which adds exactly   *)
(* the name of that statement; every failing call and every call that is   *)
(* not a CREATE TABLE leaves it unchanged.                                 *)
(***************************************************************************)
C18_TableNamesGrowOnlyByCreate ==
  [][/\ DOMAIN tables \subseteq DOMAIN tables'
     /\ (DOMAIN tables' # DOMAIN tables) =>
          /\ Creating'
          /\ result'.tag = "Ok"
          /\ DOMAIN tables' = DOMAIN tables \cup {TheStatement'.name}
     /\ (pc' = "returned" /\ (result'.tag # "Ok" \/ ~Creating')) =>
          DOMAIN tables' = DOMAIN tables]_vars

\* a second table name was added by a successful CREATE TABLE
C18_Witness ==
  /\ Creating
  /\ result.tag = "Ok"
  /\ Cardinality(DOMAIN before) = 1
  /\ DOMAIN tables = DOMAIN before \cup {TheStatement.name}
  /\ Cardinality(DOMAIN tables) = 2

(***************************************************************************)
(* C19: an INSERT call, failing or not, changes nothing but the rows of    *)
(* its target table, and those only by appending: every other table, the   *)
(* target's columns and the target's earlier rows stay as they were, and   *)
(* the appended rows are those of the first tuples, in source order.       *)
(***************************************************************************)
C19_InsertOnlyAppends ==
  Single("Insert") =>
    /\ DOMAIN tables = DOMAIN before
    /\ \A n \in DOMAIN before :
         n # TheStatement.name => tables[n] = before[n]
    /\ TheStatement.name \in DOMAIN before =>
         /\ tables[TheStatement.name].columns = Target.columns
         /\ IF Examining
            THEN \E j \in 0..TupleCount :
                   tables[TheStatement.name].rows = Committed(j)
            ELSE tables = before

\* two different rows were appended next to another table
C19_Witness ==
  /\ Examining
  /\ Cardinality(DOMAIN before) = 2
  /\ TupleCount = 2
  /\ RowOf(TupleAt(1)) # RowOf(TupleAt(2))
  /\ result.tag = "Ok"
  /\ tables[TheStatement.name].rows = Committed(2)

(***************************************************************************)
(* C20: in every reachable state the column names within each table are    *)
(* pairwise distinct; a CREATE TABLE that declares a column name twice     *)
(* does not result in a table with a repeated column name.                 *)
(***************************************************************************)
C20_ColumnNamesDistinct ==
  \A n \in DOMAIN tables : DistinctColumnNames(tables[n])

====
